---- MODULE Spec2Model ----
(***************************************************************************)
(* The expression calculator of src/main.go: tokenize, toPostfix           *)
(* (shunting yard), evaluatePostfix and calculate, which chains them.      *)
(*                                                                         *)
(* A Go string is modelled as the sequence of its runes, each rune a       *)
(* one-character TLA+ string.  A float64 is modelled as the exact rational *)
(* <<numerator, denominator>>: float64 rounding is not modelled.  On the   *)
(* inputs explored every right operand of a division is a literal or a     *)
(* value float64 holds exactly, so its test against zero is the same, and  *)
(* a result is only compared with a value computed by the same sequence of *)
(* arithmetic operations.                                                  *)
(***************************************************************************)
EXTENDS Integers, Sequences, FiniteSets, TLC

\* Longest input drawn from every string over Alphabet.
MaxLen == 4
\* Longest input drawn from the well-formed expressions over ExprDigits.
MaxExprLen == 7

\* Token types (const block, iota).
NUMBER == 0
OPERATOR == 1
LPAREN == 2
RPAREN == 3

----------------------------------------------------------------------------
\* Runes

\* The runes unicode.IsDigit accepts, among those the model draws.
Digits == {"0", "1", "2", "3", "4", "5", "6", "7", "8", "9"}

IsDigit(r) == r \in Digits

\* A tokenizer that has no whitespace case: whitespace is an invalid character.
IsSpaceNever(r) == FALSE

\* The runes unicode.IsSpace accepts, among those the model draws.
IsSpace(r) == r \in {" ", "\t"}

\* An operator set that lost the division sign.
IsOperatorRuneNoSlash(r) == r \in {"+", "-", "*"}

\* strings.ContainsRune("+-*/", r)
IsOperatorRune(r) == r \in {"+", "-", "*", "/"}

DigitValue(r) ==
    CASE r = "0" -> 0 [] r = "1" -> 1 [] r = "2" -> 2 [] r = "3" -> 3
      [] r = "4" -> 4 [] r = "5" -> 5 [] r = "6" -> 6 [] r = "7" -> 7
      [] r = "8" -> 8 [] r = "9" -> 9

----------------------------------------------------------------------------
\* float64 values, as exact rationals <<n, d>> in lowest terms with d > 0

Abs(x) == IF x < 0 THEN -x ELSE x

RECURSIVE GCD(_, _)
GCD(a, b) == IF b = 0 THEN a ELSE GCD(b, a % b)

Rat(n, d) ==
    LET g == GCD(Abs(n), Abs(d))
        s == IF d < 0 THEN -1 ELSE 1
    IN  <<s * (n \div g), s * (d \div g)>>

Zero == <<0, 1>>

FAdd(a, b) == Rat(a[1] * b[2] + b[1] * a[2], a[2] * b[2])
FSub(a, b) == Rat(a[1] * b[2] - b[1] * a[2], a[2] * b[2])
FMul(a, b) == Rat(a[1] * b[1], a[2] * b[2])
FDiv(a, b) == Rat(a[1] * b[2], a[2] * b[1])

FromInt(n) == <<n, 1>>

----------------------------------------------------------------------------
\* Errors.  kind names the error, text is what its message carries.

nil == [kind |-> "nil", text |-> <<>>]

Errorf(kind, text) == [kind |-> kind, text |-> text]

----------------------------------------------------------------------------
\* Tokens

Token(type, value) == [Type |-> type, Value |-> value]

----------------------------------------------------------------------------
\* tokenize

\* A flush that does not test the builder: it emits a number with no text.
flushNumberAlways(tokens, numBuilder) == Append(tokens, Token(NUMBER, numBuilder))

\* if numBuilder.Len() > 0 { tokens = append(tokens, Token{NUMBER, ...}) }
flushNumber(tokens, numBuilder) ==
    IF Len(numBuilder) > 0
    THEN Append(tokens, Token(NUMBER, numBuilder))
    ELSE tokens

\* One iteration of the loop over the runes: the switch.
tokenizeRune(st, r) ==
    IF IsDigit(r) \/ r = "."
    THEN [st EXCEPT !.numBuilder = Append(@, r)]
    ELSE IF IsOperatorRune(r)
    THEN [st EXCEPT !.tokens = Append(flushNumber(st.tokens, st.numBuilder),
                                      Token(OPERATOR, <<r>>)),
                    !.numBuilder = <<>>]
    ELSE IF r = "("
    THEN [st EXCEPT !.tokens = Append(flushNumber(st.tokens, st.numBuilder),
                                      Token(LPAREN, <<r>>)),
                    !.numBuilder = <<>>]
    ELSE IF r = ")"
    THEN [st EXCEPT !.tokens = Append(flushNumber(st.tokens, st.numBuilder),
                                      Token(RPAREN, <<r>>)),
                    !.numBuilder = <<>>]
    ELSE IF IsSpace(r)
    THEN [st EXCEPT !.tokens = flushNumber(st.tokens, st.numBuilder),
                    !.numBuilder = <<>>]
    ELSE [st EXCEPT !.tokens = <<>>,
                    !.err = Errorf("InvalidCharacter", <<r>>)]

\* After the loop: the last number, and the return.
tokenizeEnd(st) ==
    [st EXCEPT !.tokens = flushNumber(st.tokens, st.numBuilder)]

tokenizeStart == [tokens |-> <<>>, numBuilder |-> <<>>, err |-> nil]

RECURSIVE tokenizeFrom(_, _, _)
tokenizeFrom(st, input, k) ==
    IF k > Len(input) THEN tokenizeEnd(st)
    ELSE LET nx == tokenizeRune(st, input[k])
         IN  IF nx.err # nil THEN nx ELSE tokenizeFrom(nx, input, k + 1)

\* tokenize(input): [tokens, err]
tokenize(input) ==
    LET st == tokenizeFrom(tokenizeStart, input, 1)
    IN  [tokens |-> st.tokens, err |-> st.err]

----------------------------------------------------------------------------
\* toPostfix

\* Popping only a strictly higher precedence: operators of equal precedence
\* would group to the right.
precedesStrict(top, token) ==
    LET prec(v) == IF v \in {<<"*">>, <<"/">>} THEN 2 ELSE 1
    IN  top.Type = OPERATOR /\ prec(top.Value) > prec(token.Value)

\* The precedence map.
precedence(v) ==
    CASE v = <<"+">> -> 1
      [] v = <<"-">> -> 1
      [] v = <<"*">> -> 2
      [] v = <<"/">> -> 2
      [] OTHER -> 0

\* top.Type == OPERATOR && precedence[top.Value] >= precedence[token.Value]
precedes(top, token) ==
    top.Type = OPERATOR /\ precedence(top.Value) >= precedence(token.Value)

Top(s) == s[Len(s)]
Pop(s) == SubSeq(s, 1, Len(s) - 1)

\* case OPERATOR: the loop that pops the operators that bind at least as tightly.
RECURSIVE popOperators(_, _)
popOperators(st, token) ==
    IF Len(st.stack) > 0 /\ precedes(Top(st.stack), token)
    THEN popOperators([st EXCEPT !.output = Append(@, Top(st.stack)),
                                 !.stack = Pop(@)], token)
    ELSE st

\* case RPAREN: the loop that pops down to the nearest LPAREN.
RECURSIVE popToLeftParen(_)
popToLeftParen(st) ==
    IF Len(st.stack) > 0 /\ Top(st.stack).Type # LPAREN
    THEN popToLeftParen([st EXCEPT !.output = Append(@, Top(st.stack)),
                                   !.stack = Pop(@)])
    ELSE st

\* A converter that sends a left parenthesis to the output as well.
pushLeftParenToOutput(st, token) ==
    [st EXCEPT !.stack = Append(@, token), !.output = Append(@, token)]

\* case LPAREN
pushLeftParen(st, token) == [st EXCEPT !.stack = Append(@, token)]

\* A converter that accepts a right parenthesis with nothing open.
closeParenLenient(st) ==
    LET p == popToLeftParen(st)
    IN  IF Len(p.stack) = 0 THEN p ELSE [p EXCEPT !.stack = Pop(@)]

\* case RPAREN
closeParen(st) ==
    LET p == popToLeftParen(st)
    IN  IF Len(p.stack) = 0 \/ Top(p.stack).Type # LPAREN
        THEN [p EXCEPT !.output = <<>>,
                       !.err = Errorf("MismatchedParentheses", <<>>)]
        ELSE [p EXCEPT !.stack = Pop(@)]

\* One iteration of the loop over the tokens: the switch.
toPostfixToken(st, token) ==
    IF token.Type = NUMBER
    THEN [st EXCEPT !.output = Append(@, token)]
    ELSE IF token.Type = OPERATOR
    THEN LET p == popOperators(st, token)
         IN  [p EXCEPT !.stack = Append(@, token)]
    ELSE IF token.Type = LPAREN
    THEN pushLeftParen(st, token)
    ELSE IF token.Type = RPAREN
    THEN closeParen(st)
    ELSE st

\* After the loop: the rest of the stack goes to the output.
RECURSIVE toPostfixEnd(_)
toPostfixEnd(st) ==
    IF Len(st.stack) > 0
    THEN IF Top(st.stack).Type = LPAREN
         THEN [st EXCEPT !.output = <<>>,
                         !.err = Errorf("MismatchedParentheses", <<>>)]
         ELSE toPostfixEnd([st EXCEPT !.output = Append(@, Top(st.stack)),
                                      !.stack = Pop(@)])
    ELSE st

toPostfixStart == [output |-> <<>>, stack |-> <<>>, err |-> nil]

RECURSIVE toPostfixFrom(_, _, _)
toPostfixFrom(st, tokens, k) ==
    IF k > Len(tokens) THEN toPostfixEnd(st)
    ELSE LET nx == toPostfixToken(st, tokens[k])
         IN  IF nx.err # nil THEN nx ELSE toPostfixFrom(nx, tokens, k + 1)

\* toPostfix(tokens): [output, err]
toPostfix(tokens) ==
    LET st == toPostfixFrom(toPostfixStart, tokens, 1)
    IN  [output |-> st.output, err |-> st.err]

----------------------------------------------------------------------------
\* evaluatePostfix

RECURSIVE Pow10(_)
Pow10(n) == IF n = 0 THEN 1 ELSE 10 * Pow10(n - 1)

RECURSIVE DigitsValue(_, _, _)
DigitsValue(text, k, acc) ==
    IF k > Len(text) THEN acc
    ELSE IF text[k] = "." THEN DigitsValue(text, k + 1, acc)
    ELSE DigitsValue(text, k + 1, 10 * acc + DigitValue(text[k]))

\* strconv.ParseFloat(text, 64) on a text of digits and decimal points: it is
\* a number when it holds a digit and at most one decimal point ("5." and
\* ".5" are numbers, "." and "1.2.3" are not).
ParseFloat(text) ==
    LET dots == {k \in DOMAIN text : text[k] = "."}
        digs == {k \in DOMAIN text : text[k] \in Digits}
    IN  IF Cardinality(dots) > 1 \/ digs = {}
           \/ Cardinality(dots) + Cardinality(digs) # Len(text)
        THEN [num |-> Zero, err |-> Errorf("NumberParseError", text)]
        ELSE LET frac == IF dots = {} THEN 0
                         ELSE Len(text) - (CHOOSE k \in dots : TRUE)
             IN  [num |-> Rat(DigitsValue(text, 1, 0), Pow10(frac)), err |-> nil]

\* A division that never tests its right operand.
divideUnchecked(st, a, b) ==
    [st EXCEPT !.stack = Append(@, IF b[1] = 0 THEN Zero ELSE FDiv(a, b))]

\* case "/"
divide(st, a, b) ==
    IF b = Zero
    THEN [st EXCEPT !.err = Errorf("DivisionByZero", <<>>)]
    ELSE [st EXCEPT !.stack = Append(@, FDiv(a, b))]

\* len(stack) < 2
tooFewOperands(stack) == Len(stack) < 2

\* case OPERATOR, once two operands are there.
applyOperator(st, token) ==
    LET b == st.stack[Len(st.stack)]
        a == st.stack[Len(st.stack) - 1]
        p == [st EXCEPT !.stack = SubSeq(@, 1, Len(@) - 2)]
    IN  IF token.Value = <<"+">> THEN [p EXCEPT !.stack = Append(@, FAdd(a, b))]
        ELSE IF token.Value = <<"-">> THEN [p EXCEPT !.stack = Append(@, FSub(a, b))]
        ELSE IF token.Value = <<"*">> THEN [p EXCEPT !.stack = Append(@, FMul(a, b))]
        ELSE IF token.Value = <<"/">> THEN divide(p, a, b)
        ELSE p

\* One iteration of the loop over the postfix tokens: the switch.
evaluateToken(st, token) ==
    IF token.Type = NUMBER
    THEN LET p == ParseFloat(token.Value)
         IN  IF p.err # nil THEN [st EXCEPT !.err = p.err]
             ELSE [st EXCEPT !.stack = Append(@, p.num)]
    ELSE IF token.Type = OPERATOR
    THEN IF tooFewOperands(st.stack)
         THEN [st EXCEPT !.err = Errorf("InsufficientOperands", token.Value)]
         ELSE applyOperator(st, token)
    ELSE st

\* A final check that only refuses the empty stack.
wrongCountLenient(stack) == Len(stack) = 0

\* len(stack) != 1
wrongCount(stack) == Len(stack) # 1

\* After the loop: the final check and the return.
evaluateEnd(st) ==
    IF wrongCount(st.stack)
    THEN [result |-> Zero, err |-> Errorf("InvalidExpression", <<>>)]
    ELSE [result |-> st.stack[1], err |-> nil]

evaluateStart == [stack |-> <<>>, err |-> nil]

RECURSIVE evaluateFrom(_, _, _)
evaluateFrom(st, tokens, k) ==
    IF k > Len(tokens) THEN evaluateEnd(st)
    ELSE LET nx == evaluateToken(st, tokens[k])
         IN  IF nx.err # nil THEN [result |-> Zero, err |-> nx.err]
             ELSE evaluateFrom(nx, tokens, k + 1)

\* evaluatePostfix(tokens): [result, err]
evaluatePostfix(tokens) == evaluateFrom(evaluateStart, tokens, 1)

----------------------------------------------------------------------------
\* calculate

\* A calculate that ignores the error of a stage and runs the next one.
returnsEarlyNever(e) == FALSE

\* if err != nil { return 0, err }
returnsEarly(e) == e # nil

\* calculate(input): [result, err]
calculate(input) ==
    LET t == tokenize(input)
    IN  IF returnsEarly(t.err) THEN [result |-> Zero, err |-> t.err]
        ELSE LET p == toPostfix(t.tokens)
             IN  IF returnsEarly(p.err) THEN [result |-> Zero, err |-> p.err]
                 ELSE evaluatePostfix(p.output)

----------------------------------------------------------------------------
\* The inputs explored

\* The runes of the exhaustive inputs: two digits, the decimal point, the
\* four operators, the parentheses, a space and a rune tokenize refuses.
Alphabet == {"0", "2", ".", "+", "-", "*", "/", "(", ")", " ", "a"}

Strings == UNION {[1..k -> Alphabet] : k \in 0..MaxLen}

\* The digits of the generated well-formed expressions.
ExprDigits == {"0", "2", "4"}

\* The well-formed expressions of exactly n runes: a digit, a parenthesised
\* expression, or two expressions around an operator.
RECURSIVE ExprOfLen(_)
ExprOfLen(n) ==
    (IF n = 1 THEN {<<d>> : d \in ExprDigits} ELSE {})
    \cup (IF n >= 3 THEN {<<"(">> \o e \o <<")">> : e \in ExprOfLen(n - 2)} ELSE {})
    \cup UNION {UNION {{a \o <<op>> \o b : a \in ExprOfLen(k)} : b \in ExprOfLen(n - 1 - k)}
                : <<k, op>> \in (1..(n - 2)) \X {"+", "-", "*", "/"}}

Expressions == UNION {ExprOfLen(n) : n \in 1..MaxExprLen}

\* The inputs the specification and the claims name.
Examples ==
    {
        \* "2 + 3 * 4"
        <<"2", " ", "+", " ", "3", " ", "*", " ", "4">>,
        \* "(2 + 3) * 4"
        <<"(", "2", " ", "+", " ", "3", ")", " ", "*", " ", "4">>,
        \* "8 - 3 - 2"
        <<"8", " ", "-", " ", "3", " ", "-", " ", "2">>,
        \* "16 / 4 / 2"
        <<"1", "6", " ", "/", " ", "4", " ", "/", " ", "2">>,
        \* "1.5 * 2"
        <<"1", ".", "5", " ", "*", " ", "2">>,
        \* "+ 1 2"
        <<"+", " ", "1", " ", "2">>,
        \* "-5"
        <<"-", "5">>,
        \* "1 2"
        <<"1", " ", "2">>,
        \* "(1 + 2"
        <<"(", "1", " ", "+", " ", "2">>,
        \* "1 + 2)"
        <<"1", " ", "+", " ", "2", ")">>,
        \* ")("
        <<")", "(">>,
        \* "5 / 0"
        <<"5", " ", "/", " ", "0">>,
        \* "0 / 5"
        <<"0", " ", "/", " ", "5">>,
        \* "()"
        <<"(", ")">>,
        \* "   "
        <<" ", " ", " ">>,
        \* "2 + a"
        <<"2", " ", "+", " ", "a">>,
        \* "++"
        <<"+", "+">>,
        \* "1+1"
        <<"1", "+", "1">>,
        \* " 1 + 1 "
        <<" ", "1", " ", "+", " ", "1", " ">>,
        \* "5 / 0)"
        <<"5", " ", "/", " ", "0", ")">>,
        \* "(+"
        <<"(", "+">>,
        \* "a)"
        <<"a", ")">>,
        \* "1.2.3 + 1"
        <<"1", ".", "2", ".", "3", " ", "+", " ", "1">>
    }

Inputs == Strings \cup Expressions \cup Examples

----------------------------------------------------------------------------
\* The program: one call of calculate(input), a loop iteration per step

VARIABLES
    input,       \* calculate's argument
    pc,          \* the function running: "tokenize", "toPostfix", "evaluatePostfix", "done"
    i,           \* the position of the running loop, from 1
    tokens,      \* tokenize: tokens, then calculate's tokens
    numBuilder,  \* tokenize: numBuilder
    output,      \* toPostfix: output
    stack,       \* toPostfix: stack
    postfix,     \* calculate: postfix
    operands,    \* evaluatePostfix: stack
    result,      \* calculate's first result
    err          \* calculate's err

vars == <<input, pc, i, tokens, numBuilder, output, stack, postfix, operands, result, err>>

Init ==
    /\ input \in Inputs
    /\ pc = "tokenize"
    /\ i = 1
    /\ tokens = <<>>
    /\ numBuilder = <<>>
    /\ output = <<>>
    /\ stack = <<>>
    /\ postfix = <<>>
    /\ operands = <<>>
    /\ result = Zero
    /\ err = nil

\* tokenize: one rune.  An invalid rune returns (nil, err) to calculate.
TokenizeRune ==
    /\ pc = "tokenize"
    /\ i <= Len(input)
    /\ LET nx == tokenizeRune([tokens |-> tokens, numBuilder |-> numBuilder, err |-> nil],
                              input[i])
       IN  /\ tokens' = nx.tokens
           /\ numBuilder' = nx.numBuilder
           /\ err' = nx.err
           /\ IF nx.err = nil
              THEN pc' = "tokenize" /\ i' = i + 1
              ELSE IF returnsEarly(nx.err)
              THEN pc' = "done" /\ i' = i
              ELSE pc' = "toPostfix" /\ i' = 1
    /\ UNCHANGED <<input, output, stack, postfix, operands, result>>

\* tokenize: the end of the input; calculate goes on to toPostfix.
TokenizeReturn ==
    /\ pc = "tokenize"
    /\ i > Len(input)
    /\ LET nx == tokenizeEnd([tokens |-> tokens, numBuilder |-> numBuilder, err |-> nil])
       IN  /\ tokens' = nx.tokens
           /\ numBuilder' = nx.numBuilder
    /\ pc' = "toPostfix"
    /\ i' = 1
    /\ UNCHANGED <<input, output, stack, postfix, operands, result, err>>

\* What calculate does with toPostfix's return.
ToPostfixReturns(nx) ==
    /\ output' = nx.output
    /\ stack' = nx.stack
    /\ postfix' = nx.output
    /\ err' = nx.err
    /\ IF returnsEarly(nx.err)
       THEN pc' = "done" /\ i' = i
       ELSE pc' = "evaluatePostfix" /\ i' = 1

\* toPostfix: one token.  An unmatched right parenthesis returns (nil, err).
ToPostfixToken ==
    /\ pc = "toPostfix"
    /\ i <= Len(tokens)
    /\ LET nx == toPostfixToken([output |-> output, stack |-> stack, err |-> nil],
                                tokens[i])
       IN  IF nx.err = nil
           THEN /\ output' = nx.output
                /\ stack' = nx.stack
                /\ i' = i + 1
                /\ UNCHANGED <<pc, postfix, err>>
           ELSE ToPostfixReturns(nx)
    /\ UNCHANGED <<input, tokens, numBuilder, operands, result>>

\* toPostfix: the end of the tokens; the stack is emptied and output returned.
ToPostfixReturn ==
    /\ pc = "toPostfix"
    /\ i > Len(tokens)
    /\ ToPostfixReturns(toPostfixEnd([output |-> output, stack |-> stack, err |-> nil]))
    /\ UNCHANGED <<input, tokens, numBuilder, operands, result>>

\* evaluatePostfix: one token.  An error returns (0, err), which calculate returns.
EvaluateToken ==
    /\ pc = "evaluatePostfix"
    /\ i <= Len(postfix)
    /\ LET nx == evaluateToken([stack |-> operands, err |-> nil], postfix[i])
       IN  /\ operands' = nx.stack
           /\ err' = nx.err
           /\ IF nx.err = nil
              THEN pc' = "evaluatePostfix" /\ i' = i + 1
              ELSE pc' = "done" /\ i' = i
    /\ UNCHANGED <<input, tokens, numBuilder, output, stack, postfix, result>>

\* evaluatePostfix: the end of the tokens; the final check, and calculate returns.
EvaluateReturn ==
    /\ pc = "evaluatePostfix"
    /\ i > Len(postfix)
    /\ LET nx == evaluateEnd([stack |-> operands, err |-> nil])
       IN  /\ result' = nx.result
           /\ err' = nx.err
    /\ pc' = "done"
    /\ UNCHANGED <<input, i, tokens, numBuilder, output, stack, postfix, operands>>

Next ==
    \/ TokenizeRune
    \/ TokenizeReturn
    \/ ToPostfixToken
    \/ ToPostfixReturn
    \/ EvaluateToken
    \/ EvaluateReturn

Spec == Init /\ [][Next]_vars

----------------------------------------------------------------------------
\* What the claims are stated with: definitions that do not use the program's

\* The runes the specification allows in an input.
AllowedRunes == Digits \cup {".", "+", "-", "*", "/", "(", ")", " ", "\t"}

BadPositions(s) == {k \in DOMAIN s : s[k] \notin AllowedRunes}

Min(S) == CHOOSE x \in S : \A y \in S : x <= y

\* A left-to-right scan of seq from position k at nesting depth d: no closing
\* element without an earlier unmatched opening one, and none left open.
RECURSIVE NestingOK(_, _, _, _, _)
NestingOK(seq, k, d, open, close) ==
    IF k > Len(seq) THEN d = 0
    ELSE IF seq[k] = open THEN NestingOK(seq, k + 1, d + 1, open, close)
    ELSE IF seq[k] = close THEN d > 0 /\ NestingOK(seq, k + 1, d - 1, open, close)
    ELSE NestingOK(seq, k + 1, d, open, close)

BalancedTokens(toks) ==
    NestingOK(toks, 1, 0, Token(LPAREN, <<"(">>), Token(RPAREN, <<")">>))

BalancedRunes(s) == NestingOK(s, 1, 0, "(", ")")

Count(seq, x) == Cardinality({k \in DOMAIN seq : seq[k] = x})

IsParen(t) == t.Type \in {LPAREN, RPAREN}
IsNumber(t) == t.Type = NUMBER

\* The error kinds of each stage.
EvaluationErrors == {"NumberParseError", "InsufficientOperands", "DivisionByZero",
                     "InvalidExpression"}

Done == pc = "done"

\* tokenize has returned its tokens to calculate.
Tokenized == pc \in {"toPostfix", "evaluatePostfix"} \/ (Done /\ err.kind # "InvalidCharacter")

\* toPostfix has returned its output to calculate.
Converted ==
    \/ pc = "evaluatePostfix"
    \/ Done /\ err.kind \notin {"InvalidCharacter", "MismatchedParentheses"}

\* The nesting depth in front of position j of a token sequence.
DepthBefore(toks, j) ==
    Cardinality({k \in 1..(j - 1) : toks[k].Type = LPAREN})
    - Cardinality({k \in 1..(j - 1) : toks[k].Type = RPAREN})

\* The operator an expression splits at: the last operator outside every
\* parenthesis among those that bind loosest (so equal operators group to the
\* left, and * and / group inside + and -); 0 when there is none.
SplitAt(toks) ==
    LET outer == {j \in DOMAIN toks : toks[j].Type = OPERATOR /\ DepthBefore(toks, j) = 0}
        low  == {j \in outer : toks[j].Value \in {<<"+">>, <<"-">>}}
    IN  IF low # {} THEN CHOOSE j \in low : \A k \in low : k <= j
        ELSE IF outer # {} THEN CHOOSE j \in outer : \A k \in outer : k <= j
        ELSE 0

\* The grammar of infix expressions: a number literal, ( expression ), or
\* expression operator expression.
RECURSIVE WellFormed(_)
WellFormed(toks) ==
    LET j == SplitAt(toks)
        n == Len(toks)
    IN  IF n = 0 THEN FALSE
        ELSE IF j # 0
        THEN WellFormed(SubSeq(toks, 1, j - 1)) /\ WellFormed(SubSeq(toks, j + 1, n))
        ELSE IF n = 1
        THEN toks[1].Type = NUMBER /\ ParseFloat(toks[1].Value).err = nil
        ELSE /\ toks[1].Type = LPAREN
             /\ toks[n].Type = RPAREN
             /\ WellFormed(SubSeq(toks, 2, n - 1))

\* The value of a well-formed expression by its grammar: [ok, val], ok false
\* when some division in it has a zero right operand.
RECURSIVE Value(_)
Value(toks) ==
    LET j == SplitAt(toks)
        n == Len(toks)
    IN  IF j # 0
        THEN LET a == Value(SubSeq(toks, 1, j - 1))
                 b == Value(SubSeq(toks, j + 1, n))
                 op == toks[j].Value
             IN  IF ~a.ok \/ ~b.ok \/ (op = <<"/">> /\ b.val[1] = 0)
                 THEN [ok |-> FALSE, val |-> Zero]
                 ELSE [ok |-> TRUE,
                       val |-> CASE op = <<"+">> -> FAdd(a.val, b.val)
                                 [] op = <<"-">> -> FSub(a.val, b.val)
                                 [] op = <<"*">> -> FMul(a.val, b.val)
                                 [] op = <<"/">> -> FDiv(a.val, b.val)]
        ELSE IF n = 1 THEN [ok |-> TRUE, val |-> ParseFloat(toks[1].Value).num]
        ELSE Value(SubSeq(toks, 2, n - 1))

\* calculate has returned v.
Returned(s, v) == input = s /\ Done /\ err = nil /\ result = v

\* calculate has failed with an error of this kind.
Failed(s, kind) == input = s /\ Done /\ err.kind = kind

----------------------------------------------------------------------------
\* C1

\* C1: for a well-formed infix expression calculate returns the value that
\* standard precedence, left associativity and the parentheses give it (and
\* fails with DivisionByZero when that value has a division by zero);
\* "2 + 3 * 4" gives 14, "(2 + 3) * 4" gives 20, "8 - 3 - 2" gives 3 and
\* "16 / 4 / 2" gives 2.
C1_PrecedenceValue ==
    /\ (Done /\ Tokenized /\ WellFormed(tokens)) =>
          LET v == Value(tokens)
          IN  IF v.ok THEN err = nil /\ result = v.val
              ELSE err.kind = "DivisionByZero"
    /\ (Done /\ input = <<"2", " ", "+", " ", "3", " ", "*", " ", "4">>) => Returned(<<"2", " ", "+", " ", "3", " ", "*", " ", "4">>, FromInt(14))
    /\ (Done /\ input = <<"(", "2", " ", "+", " ", "3", ")", " ", "*", " ", "4">>) => Returned(<<"(", "2", " ", "+", " ", "3", ")", " ", "*", " ", "4">>, FromInt(20))
    /\ (Done /\ input = <<"8", " ", "-", " ", "3", " ", "-", " ", "2">>) => Returned(<<"8", " ", "-", " ", "3", " ", "-", " ", "2">>, FromInt(3))
    /\ (Done /\ input = <<"1", "6", " ", "/", " ", "4", " ", "/", " ", "2">>) => Returned(<<"1", "6", " ", "/", " ", "4", " ", "/", " ", "2">>, FromInt(2))

C1_Witness == Returned(<<"8", " ", "-", " ", "3", " ", "-", " ", "2">>, FromInt(3)) /\ WellFormed(tokens)

----------------------------------------------------------------------------
\* C2

\* The tokens are an operator followed by number literals only.
LeadingOperator(toks) ==
    /\ Len(toks) >= 1
    /\ toks[1].Type = OPERATOR
    /\ \A k \in 2..Len(toks) :
          toks[k].Type = NUMBER /\ ParseFloat(toks[k].Value).err = nil

\* C2: an input whose first token is an operator and whose other tokens are
\* valid number literals fails with InsufficientOperands and never returns a
\* result.
C2_LeadingOperator ==
    (Done /\ Tokenized /\ LeadingOperator(tokens)) => err.kind = "InsufficientOperands"

----------------------------------------------------------------------------
\* C3

\* C3: toPostfix fails with MismatchedParentheses exactly when a
\* left-to-right scan of the tokens finds a RightParen with no earlier
\* unmatched LeftParen or a LeftParen that is never closed; it succeeds on
\* every properly nested sequence.
C3_MismatchedParentheses ==
    /\ (Tokenized /\ pc # "toPostfix") =>
          /\ (err.kind = "MismatchedParentheses") <=> ~BalancedTokens(tokens)
          /\ BalancedTokens(tokens) => Converted
    /\ pc = "toPostfix" => err = nil
    /\ (Done /\ input \in {<<"(", "1", " ", "+", " ", "2">>, <<"1", " ", "+", " ", "2", ")">>, <<")", "(">>}) => err.kind = "MismatchedParentheses"

C3_Witness ==
    /\ Failed(<<"1", " ", "+", " ", "2", ")">>, "MismatchedParentheses")
    /\ ~BalancedTokens(tokens)
    /\ i = Len(tokens)

----------------------------------------------------------------------------
\* C4

\* The step about to run applies / to a right operand that is exactly zero.
DividesByZero ==
    /\ pc = "evaluatePostfix"
    /\ i <= Len(postfix)
    /\ postfix[i] = Token(OPERATOR, <<"/">>)
    /\ Len(operands) >= 2
    /\ operands[Len(operands)][1] = 0

\* C4: in the evaluator a / whose right operand (the value popped first) is
\* exactly zero fails with DivisionByZero and pushes nothing, and no other
\* step produces DivisionByZero; "5 / 0" fails with DivisionByZero and
\* "0 / 5" succeeds.
C4_DivisionByZero ==
    /\ [][/\ DividesByZero =>
                /\ err'.kind = "DivisionByZero"
                /\ pc' = "done"
                /\ operands' = SubSeq(operands, 1, Len(operands) - 2)
          /\ ~DividesByZero => err'.kind # "DivisionByZero"]_vars
    /\ [](Done /\ input = <<"5", " ", "/", " ", "0">> => err.kind = "DivisionByZero")
    /\ [](Done /\ input = <<"0", " ", "/", " ", "5">> => err = nil /\ result = Zero)

C4_Witness == Failed(<<"5", " ", "/", " ", "0">>, "DivisionByZero") /\ operands = <<>> /\ i = 3

----------------------------------------------------------------------------
\* C5

\* evaluatePostfix has consumed every postfix token and returned.
EvaluatedToTheEnd == Converted /\ Done /\ i > Len(postfix)

\* C5: evaluatePostfix returns a value only if the operand stack holds
\* exactly one value once every postfix token is consumed, and that value;
\* otherwise it fails with InvalidExpression, as for the empty token sequence
\* (the empty input, whitespace, "()") and for surplus operands ("1 2").
C5_InvalidExpression ==
    /\ (Done /\ err = nil) =>
          EvaluatedToTheEnd /\ Len(operands) = 1 /\ result = operands[1]
    /\ EvaluatedToTheEnd =>
          IF Len(operands) = 1 THEN err = nil
          ELSE err = Errorf("InvalidExpression", <<>>) /\ result = Zero
    /\ (Done /\ err.kind = "InvalidExpression") => EvaluatedToTheEnd
    /\ (Done /\ input \in {<<>>, <<" ", " ", " ">>, <<"(", ")">>, <<"1", " ", "2">>}) => err.kind = "InvalidExpression"

C5_Witness == Failed(<<"1", " ", "2">>, "InvalidExpression") /\ Len(operands) = 2

----------------------------------------------------------------------------
\* C6

\* C6: tokenize fails with InvalidCharacter if and only if the input holds a
\* rune that is no digit, decimal point, operator, parenthesis or whitespace;
\* the error carries the first such rune, no tokens are returned, and an
\* input of allowed runes only (such as "++") tokenizes.
C6_InvalidCharacter ==
    LET bad == BadPositions(input)
    IN  /\ pc = "tokenize" =>
              err = nil /\ \A k \in 1..(i - 1) : input[k] \in AllowedRunes
        /\ (pc # "tokenize" /\ bad # {}) =>
              /\ Done
              /\ err = Errorf("InvalidCharacter", <<input[Min(bad)]>>)
              /\ tokens = <<>>
        /\ (pc # "tokenize" /\ bad = {}) => err.kind # "InvalidCharacter"
        /\ (pc = "toPostfix" /\ i = 1 /\ input = <<"+", "+">>) =>
              tokens = <<Token(OPERATOR, <<"+">>), Token(OPERATOR, <<"+">>)>>

C6_Witness ==
    /\ input = <<"2", " ", "+", " ", "a">>
    /\ Done
    /\ err = Errorf("InvalidCharacter", <<"a">>)
    /\ tokens = <<>>

----------------------------------------------------------------------------
\* C7

NumberRunes == Digits \cup {"."}

\* C7 as claimed: the text of every Number token is a non-empty run of
\* digits that holds at most one decimal point.
C7_AtMostOnePoint ==
    \A k \in DOMAIN tokens :
        tokens[k].Type = NUMBER =>
            /\ Len(tokens[k].Value) > 0
            /\ \A j \in DOMAIN tokens[k].Value : tokens[k].Value[j] \in NumberRunes
            /\ Count(tokens[k].Value, ".") <= 1

\* C7, amended: the text of every Number token is a non-empty run of digits
\* and decimal points; it may hold any number of decimal points.
C7_NumberText ==
    \A k \in DOMAIN tokens :
        tokens[k].Type = NUMBER =>
            /\ Len(tokens[k].Value) > 0
            /\ \A j \in DOMAIN tokens[k].Value : tokens[k].Value[j] \in NumberRunes

C7_Witness ==
    /\ input = <<"1", ".", "2", ".", "3", " ", "+", " ", "1">>
    /\ pc = "toPostfix"
    /\ tokens[1] = Token(NUMBER, <<"1", ".", "2", ".", "3">>)
    /\ Count(tokens[1].Value, ".") = 2

----------------------------------------------------------------------------
\* C8

IsNumberRune(r) == r \in NumberRunes
IsBlank(r) == r \in {" ", "\t"}

\* The nearest rune that is not whitespace before position p, and from p on.
NumberBefore(s, p) ==
    LET left == {k \in 1..(p - 1) : ~IsBlank(s[k])}
    IN  left # {} /\ IsNumberRune(s[CHOOSE k \in left : \A m \in left : m <= k])

NumberFrom(s, p) ==
    LET right == {k \in p..Len(s) : ~IsBlank(s[k])}
    IN  right # {} /\ IsNumberRune(s[Min(right)])

\* s with a space put in after its first p runes, where that is at the start,
\* at the end or between two tokens that are not both numbers.
WithSpace(s) ==
    {SubSeq(s, 1, p) \o <<" ">> \o SubSeq(s, p + 1, Len(s)) :
        p \in {q \in 0..Len(s) : ~(NumberBefore(s, q + 1) /\ NumberFrom(s, q + 1))}}

\* s with one of its whitespace runes taken out, where that one does not
\* stand between two numbers.
WithoutSpace(s) ==
    {SubSeq(s, 1, p - 1) \o SubSeq(s, p + 1, Len(s)) :
        p \in {q \in DOMAIN s : IsBlank(s[q]) /\ ~(NumberBefore(s, q) /\ NumberFrom(s, q + 1))}}

\* C8: whitespace added or removed at the start, at the end or between two
\* adjacent tokens (not inside a number, not between two numbers) changes
\* neither the tokens tokenize returns nor the outcome of calculate;
\* calculate("1+1") equals calculate(" 1 + 1 ").
C8_Whitespace ==
    /\ (pc = "toPostfix" /\ i = 1) =>
          \A v \in WithSpace(input) \cup WithoutSpace(input) :
              tokenize(v) = [tokens |-> tokens, err |-> nil]
    /\ Done =>
          \A v \in WithSpace(input) \cup WithoutSpace(input) :
              calculate(v) = [result |-> result, err |-> err]
    /\ (Done /\ input = <<"1", "+", "1">>) => calculate(<<" ", "1", " ", "+", " ", "1", " ">>) = [result |-> result, err |-> err]

C8_Witness ==
    /\ Returned(<<"1", "+", "1">>, FromInt(2))
    /\ <<"1", " ", "+", "1">> \in WithSpace(input)
    /\ calculate(<<" ", "1", " ", "+", " ", "1", " ">>) = [result |-> result, err |-> err]

----------------------------------------------------------------------------
\* C9

\* C9: calculate runs tokenize, toPostfix and evaluatePostfix in this order
\* and returns the error of the first that fails, without running the next:
\* an invalid rune gives InvalidCharacter whatever else is wrong, unbalanced
\* parentheses give MismatchedParentheses even if the evaluation would fail
\* ("5 / 0)", "(+"), and an evaluation error is returned only when tokenize
\* and toPostfix both succeeded.
C9_FirstError ==
    LET bad == BadPositions(input) # {}
        open == ~BalancedRunes(input)
    IN  /\ pc = "toPostfix" => ~bad /\ err = nil /\ operands = <<>> /\ postfix = <<>>
        /\ pc = "evaluatePostfix" => ~bad /\ ~open /\ err = nil
        /\ (Done /\ bad) =>
              /\ err.kind = "InvalidCharacter"
              /\ output = <<>> /\ stack = <<>> /\ postfix = <<>> /\ operands = <<>>
        /\ (Done /\ ~bad /\ open) =>
              err.kind = "MismatchedParentheses" /\ operands = <<>>
        /\ (Done /\ err.kind \in EvaluationErrors) => ~bad /\ ~open
        /\ (Done /\ input \in {<<"5", " ", "/", " ", "0", ")">>, <<"(", "+">>}) => err.kind = "MismatchedParentheses"
        /\ (Done /\ input = <<"a", ")">>) => err.kind = "InvalidCharacter"

C9_Witness == Failed(<<"5", " ", "/", " ", "0", ")">>, "MismatchedParentheses") /\ operands = <<>>

----------------------------------------------------------------------------
\* C10

\* C10: in toPostfix the operator stack holds only Operator and LeftParen
\* tokens and the output only Number and Operator tokens after every token;
\* when toPostfix succeeds its output holds no parenthesis, holds exactly the
\* Number and Operator tokens of its input (as many of each), and lists the
\* Number tokens in the order of the input.
C10_PostfixTokens ==
    /\ \A k \in DOMAIN stack : stack[k].Type \in {OPERATOR, LPAREN}
    /\ \A k \in DOMAIN output : output[k].Type \in {NUMBER, OPERATOR}
    /\ Converted =>
          /\ \A k \in DOMAIN postfix : ~IsParen(postfix[k])
          /\ \A k \in DOMAIN postfix : Count(postfix, postfix[k]) = Count(tokens, postfix[k])
          /\ \A k \in DOMAIN tokens :
                ~IsParen(tokens[k]) => Count(postfix, tokens[k]) = Count(tokens, tokens[k])
          /\ Len(postfix) = Len(tokens) - Len(SelectSeq(tokens, IsParen))
          /\ SelectSeq(postfix, IsNumber) = SelectSeq(tokens, IsNumber)

C10_Witness ==
    /\ input = <<"(", "2", " ", "+", " ", "3", ")", " ", "*", " ", "4">>
    /\ pc = "evaluatePostfix"
    /\ i = 1
    /\ Len(tokens) = 7
    /\ Len(postfix) = 5

====
